---- MODULE Spec2Model ----
(***************************************************************************)
(* Model of the contracts router (apps/api/src/routes/contracts.ts) over   *)
(* the relational schema of the init migration.  Every handler issues one  *)
(* Prisma call, which the storage engine runs as one transaction, so each  *)
(* handler is one atomic action.  A failed Prisma call throws, the         *)
(* handler's catch block answers 500, and nothing is stored.               *)
(*                                                                         *)
(* Row ids are cuid() values: fresh on every insert, never reused.  They   *)
(* are modelled by per-table counters.  The createdAt and updatedAt        *)
(* columns are filled in by the ORM, are read by no handler and decide no  *)
(* branch; the rows of the model carry the remaining columns.  Request     *)
(* bodies are well typed: the required strings are present.                *)
(*                                                                         *)
(* `last` is a history variable: the last call handled, the parameters     *)
(* that name its targets, the HTTP status answered, the cause of a failure *)
(* (what the thrown storage error is about: "NotFound" for a connect or a  *)
(* where that names no row, "ConstraintViolation" for a delete that an ON  *)
(* DELETE RESTRICT foreign key blocks) and the JSON body.  The handlers    *)
(* answer every thrown error with 500 and log the cause.                   *)
(***************************************************************************)
EXTENDS Integers, Sequences, FiniteSets

VARIABLES users, cohorts, contracts, clauses, amendments, dependents,
          nextContract, nextClause, nextAmendment, nextDependent, last

vars == <<users, cohorts, contracts, clauses, amendments, dependents,
          nextContract, nextClause, nextAmendment, nextDependent, last>>

db == <<users, cohorts, contracts, clauses, amendments, dependents>>

(* ---------------------------------------------------------------- bounds *)

MaxRows == 3

MaxNested == 2

(* ---------------------------------------------------------- input domains *)

StoredUsers == {"u1"}

StoredCohorts == {"h1"}

UserIds == StoredUsers \cup {"u0"}

CohortIds == StoredCohorts \cup {"h0"}

ContractIds == 1..(MaxRows - 1)

ClauseIds == 1..(MaxRows - 1)

Titles == {"t1", "t2"}

ClauseTitles == {"ct"}

ClauseContents == {"v1"}

AmendContents == {"v1", "v2"}

Absent == "absent"

DependentKinds == {"tension", "journal", "failure"}

(* --------------------------------------------------------------- helpers *)

RowsInserted == (nextContract - 1) + (nextClause - 1) + (nextAmendment - 1)
                + (nextDependent - 1)

CanInsert(n) == RowsInserted + n <= MaxRows

Ids(table) == {r.id : r \in table}

Row(table, id) == CHOOSE r \in table : r.id = id

NoBody == [none |-> TRUE]

Response(op, req, status, err, body) ==
    [op |-> op, req |-> req, status |-> status, err |-> err, body |-> body]

(* ---------------------------------------------------------------- schema *)

DefaultStatus == "PENDING"

Init ==
    /\ users = StoredUsers
    /\ cohorts = StoredCohorts
    /\ contracts = {}
    /\ clauses = {}
    /\ amendments = {}
    /\ dependents = {}
    /\ nextContract = 1
    /\ nextClause = 1
    /\ nextAmendment = 1
    /\ nextDependent = 1
    /\ last = Response("none", NoBody, 0, "none", NoBody)

(* ------------------------------------------------- GET /api/contracts *)

ClauseTree(c) ==
    [clause |-> c,
     amendments |-> {a \in amendments : a.clauseId = c.id},
     createdBy |-> c.userId]

ContractTree(c) ==
    [contract |-> c,
     clauses |-> {ClauseTree(cl) : cl \in {x \in clauses : x.contractId = c.id}},
     cohort |-> c.cohortId]

FindMany == {ContractTree(c) : c \in contracts}

ListContracts ==
    /\ last' = Response("list", NoBody, 200, "none", [rows |-> FindMany])
    /\ UNCHANGED <<db, nextContract, nextClause, nextAmendment, nextDependent>>

(* ------------------------------------------------ POST /api/contracts *)

CreateReq(body) ==
    [cohortId |-> body.cohortId, hasClauses |-> body.hasClauses, clauses |-> body.clauses]

NestedClauses(body) == IF body.hasClauses THEN body.clauses ELSE <<>>

ContractCreateOkCohortOnly(cohortId, nested) ==
    cohortId \in cohorts

ContractCreateOk(cohortId, nested) ==
    /\ cohortId \in cohorts
    /\ \A i \in 1..Len(nested) : nested[i].userId \in users

NewContractRow(id, body) ==
    [id |-> id, title |-> body.title, cohortId |-> body.cohortId]

NewClauseRow(id, contractId, data) ==
    [id |-> id, title |-> data.title, content |-> data.content,
     contractId |-> contractId, userId |-> data.userId]

NestedRows(contractId, nested) ==
    {NewClauseRow(nextClause + i - 1, contractId, nested[i]) : i \in 1..Len(nested)}

CreateContract(body) ==
    LET nested == NestedClauses(body)
    IN  IF ContractCreateOk(body.cohortId, nested)
        THEN /\ CanInsert(1 + Len(nested))
             /\ nextContract \in ContractIds
             /\ nextClause + Len(nested) - 1 <= MaxRows - 1
             /\ contracts' = contracts \cup {NewContractRow(nextContract, body)}
             /\ clauses' = clauses \cup NestedRows(nextContract, nested)
             /\ nextContract' = nextContract + 1
             /\ nextClause' = nextClause + Len(nested)
             /\ last' = Response("create", CreateReq(body), 201, "none",
                                 [contract |-> NewContractRow(nextContract, body),
                                  clauses |-> NestedRows(nextContract, nested),
                                  cohort |-> body.cohortId])
             /\ UNCHANGED <<users, cohorts, amendments, dependents,
                            nextAmendment, nextDependent>>
        ELSE /\ last' = Response("create", CreateReq(body), 500, "NotFound",
                                 [error |-> "Failed to create contract"])
             /\ UNCHANGED <<db, nextContract, nextClause, nextAmendment, nextDependent>>

(* -------------------------------------------- GET /api/contracts/:id *)

FindUnique(id) ==
    IF id \in Ids(contracts) THEN {ContractTree(Row(contracts, id))} ELSE {}

GetStatusAlways200(found) == 200

GetStatus(found) == IF found = {} THEN 404 ELSE 200

GetContract(id) ==
    LET found == FindUnique(id)
    IN  /\ last' = Response("get", [id |-> id], GetStatus(found),
                            IF GetStatus(found) = 404 THEN "NotFound" ELSE "none",
                            [rows |-> found])
        /\ UNCHANGED <<db, nextContract, nextClause, nextAmendment, nextDependent>>

(* -------------------------------------------- PUT /api/contracts/:id *)

UpdatedContract(c, title) == [c EXCEPT !.title = title]

UpdateContract(id, title) ==
    IF id \in Ids(contracts)
        THEN LET c == Row(contracts, id)
             IN  /\ contracts' = (contracts \ {c}) \cup {UpdatedContract(c, title)}
                 /\ last' = Response("update", [id |-> id], 200, "none",
                                     [contract |-> UpdatedContract(c, title)])
                 /\ UNCHANGED <<users, cohorts, clauses, amendments, dependents,
                                nextContract, nextClause, nextAmendment, nextDependent>>
        ELSE /\ last' = Response("update", [id |-> id], 500, "NotFound",
                                 [error |-> "Failed to update contract"])
             /\ UNCHANGED <<db, nextContract, nextClause, nextAmendment, nextDependent>>

(* ----------------------------------------- DELETE /api/contracts/:id *)

HasDependentsClausesOnly(id) ==
    \E c \in clauses : c.contractId = id

HasDependents(id) ==
    \/ \E c \in clauses : c.contractId = id
    \/ \E d \in dependents : d.contractId = id

ContractDeleteError(id) ==
    IF id \notin Ids(contracts) THEN "NotFound"
    ELSE IF HasDependents(id) THEN "ConstraintViolation"
    ELSE "none"

DeleteContract(id) ==
    IF ContractDeleteError(id) = "none"
    THEN /\ contracts' = contracts \ {Row(contracts, id)}
         /\ last' = Response("delete", [id |-> id], 204, "none", NoBody)
         /\ UNCHANGED <<users, cohorts, clauses, amendments, dependents,
                        nextContract, nextClause, nextAmendment, nextDependent>>
    ELSE /\ last' = Response("delete", [id |-> id], 500, ContractDeleteError(id),
                             [error |-> "Failed to delete contract"])
         /\ UNCHANGED <<db, nextContract, nextClause, nextAmendment, nextDependent>>

(* ------------------------------------ POST /api/contracts/:id/clauses *)

ClauseCreateOkUserOnly(contractId, userId) ==
    userId \in users

ClauseCreateOk(contractId, userId) ==
    contractId \in Ids(contracts) /\ userId \in users

AddClause(id, body) ==
    IF ClauseCreateOk(id, body.userId)
        THEN /\ CanInsert(1)
             /\ nextClause \in ClauseIds
             /\ clauses' = clauses \cup {NewClauseRow(nextClause, id, body)}
             /\ nextClause' = nextClause + 1
             /\ last' = Response("clause", [id |-> id, userId |-> body.userId], 201, "none",
                                 [clause |-> NewClauseRow(nextClause, id, body),
                                  createdBy |-> body.userId])
             /\ UNCHANGED <<users, cohorts, contracts, amendments, dependents,
                            nextContract, nextAmendment, nextDependent>>
        ELSE /\ last' = Response("clause", [id |-> id, userId |-> body.userId], 500, "NotFound",
                                 [error |-> "Failed to add clause"])
             /\ UNCHANGED <<db, nextContract, nextClause, nextAmendment, nextDependent>>

(* -------------------------------------- POST /api/contracts/:id/amend *)

AmendReq(id, body) == [id |-> id, body |-> body]

AmendDataWholeBody(body) == body

AmendData(body) ==
    [content |-> body.content, clauseId |-> body.clauseId, userId |-> body.userId]

AmendmentCreateOkClauseOnly(data) ==
    data.clauseId \in Ids(clauses)

AmendmentCreateOk(data) ==
    data.clauseId \in Ids(clauses) /\ data.userId \in users

NewAmendmentRow(id, data) ==
    [id |-> id, content |-> data.content, userId |-> data.userId,
     clauseId |-> data.clauseId,
     status |-> IF "status" \in DOMAIN data /\ data.status # Absent
                THEN data.status ELSE DefaultStatus]

ProposeAmendmentOverwritingClause(id, body) ==
    LET data == AmendData(body)
    IN  IF AmendmentCreateOk(data)
        THEN /\ CanInsert(1)
             /\ amendments' = amendments \cup {NewAmendmentRow(nextAmendment, data)}
             /\ clauses' = {IF c.id = data.clauseId
                            THEN [c EXCEPT !.content = data.content] ELSE c :
                            c \in clauses}
             /\ nextAmendment' = nextAmendment + 1
             /\ last' = Response("amend", AmendReq(id, body), 201, "none",
                                 [amendment |-> NewAmendmentRow(nextAmendment, data),
                                  proposedBy |-> data.userId])
             /\ UNCHANGED <<users, cohorts, contracts, dependents,
                            nextContract, nextClause, nextDependent>>
        ELSE /\ last' = Response("amend", AmendReq(id, body), 500, "NotFound",
                                 [error |-> "Failed to propose amendment"])
             /\ UNCHANGED <<db, nextContract, nextClause, nextAmendment, nextDependent>>

ProposeAmendment(id, body) ==
    LET data == AmendData(body)
    IN  IF AmendmentCreateOk(data)
        THEN /\ CanInsert(1)
             /\ amendments' = amendments \cup {NewAmendmentRow(nextAmendment, data)}
             /\ nextAmendment' = nextAmendment + 1
             /\ last' = Response("amend", AmendReq(id, body), 201, "none",
                                 [amendment |-> NewAmendmentRow(nextAmendment, data),
                                  proposedBy |-> data.userId])
             /\ UNCHANGED <<users, cohorts, contracts, clauses, dependents,
                            nextContract, nextClause, nextDependent>>
        ELSE /\ last' = Response("amend", AmendReq(id, body), 500, "NotFound",
                                 [error |-> "Failed to propose amendment"])
             /\ UNCHANGED <<db, nextContract, nextClause, nextAmendment, nextDependent>>

(* ---------- rows of tension_measurements, journal_entries, failure_entries *)

InsertDependent(kind, contractId, userId) ==
    /\ contractId \in Ids(contracts)
    /\ userId \in users
    /\ CanInsert(1)
    /\ dependents' = dependents \cup
          {[id |-> nextDependent, kind |-> kind,
            contractId |-> contractId, userId |-> userId]}
    /\ nextDependent' = nextDependent + 1
    /\ last' = Response("insert", [id |-> contractId], 0, "none", NoBody)
    /\ UNCHANGED <<users, cohorts, contracts, clauses, amendments,
                   nextContract, nextClause, nextAmendment>>

(* ------------------------------------------------------------ requests *)

ClauseInputs == [title : ClauseTitles, content : ClauseContents, userId : UserIds]

NestedInputs == UNION {[1..n -> ClauseInputs] : n \in 0..MaxNested}

CreateBodies ==
    [title : Titles, cohortId : CohortIds, hasClauses : {TRUE}, clauses : NestedInputs]
    \cup [title : Titles, cohortId : CohortIds, hasClauses : {FALSE}, clauses : {<<>>}]

AmendBodies ==
    [clauseId : ClauseIds, content : AmendContents, userId : UserIds,
     status : {Absent, "ACCEPTED", "REJECTED"}]

Next ==
    \/ ListContracts
    \/ \E body \in CreateBodies : CreateContract(body)
    \/ \E id \in ContractIds : GetContract(id)
    \/ \E id \in ContractIds, title \in Titles : UpdateContract(id, title)
    \/ \E id \in ContractIds : DeleteContract(id)
    \/ \E id \in ContractIds, body \in ClauseInputs : AddClause(id, body)
    \/ \E id \in ContractIds, body \in AmendBodies : ProposeAmendment(id, body)
    \/ \E kind \in DependentKinds, id \in ContractIds, userId \in StoredUsers :
          InsertDependent(kind, id, userId)

Spec == Init /\ [][Next]_vars

(* ========================================================= properties *)

Frame == <<users, cohorts, contracts, clauses, dependents>>

(* C1: a propose call, successful or failed, leaves every stored clause,   *)
(* contract, cohort, user and dependent row as it was; a successful call   *)
(* adds exactly one Amendment row and a failed call adds none.             *)
C1_ProposeNeverMutatesClause ==
    [][last'.op = "amend" =>
          /\ clauses' = clauses
          /\ UNCHANGED Frame
          /\ amendments \subseteq amendments'
          /\ Cardinality(amendments' \ amendments)
                = (IF last'.status = 201 THEN 1 ELSE 0)]_vars

C1_Witness ==
    /\ last.op = "amend"
    /\ last.status = 201
    /\ \E c \in clauses :
          /\ c.id = last.body.amendment.clauseId
          /\ c.content # last.body.amendment.content

(* C2: every Amendment row enters the table with status PENDING, through a *)
(* successful propose call, and carries the clause, the proposer and the   *)
(* content named in that call's body, whatever else the body carries.      *)
C2_CreatedPending ==
    [][\A a \in amendments' \ amendments :
          /\ a.status = "PENDING"
          /\ last'.op = "amend"
          /\ last'.status = 201
          /\ last'.body.amendment = a
          /\ a.clauseId = last'.req.body.clauseId
          /\ a.userId = last'.req.body.userId
          /\ a.content = last'.req.body.content]_vars

C2_Witness ==
    /\ last.op = "amend"
    /\ last.status = 201
    /\ last.req.body.status = "ACCEPTED"
    /\ last.body.amendment \in amendments
    /\ last.body.amendment.status = "PENDING"

(* C6: deleting a stored Contract that clauses, tension measurements,      *)
(* journal entries or failure entries still reference fails (500, cause    *)
(* ConstraintViolation) and leaves every table unchanged; deleting a       *)
(* stored Contract that nothing references answers 204 and removes that    *)
(* Contract row and nothing else.                                          *)
C6_DeleteRestricted ==
    [][last'.op = "delete" /\ last'.req.id \in Ids(contracts) =>
          LET id == last'.req.id
              referenced == \/ \E c \in clauses : c.contractId = id
                            \/ \E d \in dependents : d.contractId = id
          IN  IF referenced
              THEN /\ last'.status = 500
                   /\ last'.err = "ConstraintViolation"
                   /\ UNCHANGED db
              ELSE /\ last'.status = 204
                   /\ contracts' = {c \in contracts : c.id # id}
                   /\ UNCHANGED <<users, cohorts, clauses, amendments, dependents>>]_vars

C6_Witness ==
    /\ last.op = "delete"
    /\ last.status = 500
    /\ last.err = "ConstraintViolation"
    /\ last.req.id \in Ids(contracts)
    /\ \E d \in dependents : d.contractId = last.req.id
    /\ ~ \E c \in clauses : c.contractId = last.req.id

(* C7: a propose call whose clauseId names no stored Clause, or whose      *)
(* userId names no stored User, fails (500, cause NotFound), persists no   *)
(* Amendment and leaves the stored state unchanged.                        *)
C7_ProposeNotFound ==
    [][/\ last'.op = "amend"
       /\ \/ last'.req.body.clauseId \notin Ids(clauses)
          \/ last'.req.body.userId \notin users
       => /\ last'.status = 500
          /\ last'.err = "NotFound"
          /\ amendments' = amendments
          /\ UNCHANGED db]_vars

C7_Witness ==
    /\ last.op = "amend"
    /\ last.status = 500
    /\ last.req.body.clauseId \in Ids(clauses)
    /\ last.req.body.userId \notin users

(* C8: in every reachable state every Contract references a stored Cohort, *)
(* every Clause a stored Contract and a stored User, and every Amendment a *)
(* stored Clause and a stored User.                                        *)
C8_ReferentialIntegrity ==
    /\ \A c \in contracts : \E h \in cohorts : h = c.cohortId
    /\ \A c \in clauses :
          /\ \E k \in contracts : k.id = c.contractId
          /\ \E u \in users : u = c.userId
    /\ \A a \in amendments :
          /\ \E c \in clauses : c.id = a.clauseId
          /\ \E u \in users : u = a.userId

C8_Witness ==
    /\ last.op = "delete"
    /\ last.status = 500
    /\ \E a \in amendments : \E c \in clauses :
          a.clauseId = c.id /\ c.contractId = last.req.id

(* C9: GET /contracts/:id answers 404 exactly when no Contract with that   *)
(* id is stored, otherwise 200 with that Contract, its clauses and their   *)
(* amendments; either way nothing stored changes.                          *)
C9_GetContract ==
    [][last'.op = "get" =>
          LET id == last'.req.id
          IN  /\ UNCHANGED db
              /\ last'.status \in {200, 404}
              /\ last'.status = 404 <=> ~ \E c \in contracts : c.id = id
              /\ last'.status = 200 =>
                    \E t \in last'.body.rows :
                       /\ last'.body.rows = {t}
                       /\ t.contract \in contracts
                       /\ t.contract.id = id
                       /\ {ct.clause : ct \in t.clauses}
                             = {c \in clauses : c.contractId = id}
                       /\ \A ct \in t.clauses :
                             ct.amendments
                                = {a \in amendments : a.clauseId = ct.clause.id}]_vars

C9_Witness ==
    /\ last.op = "get"
    /\ last.status = 200
    /\ \E t \in last.body.rows : \E ct \in t.clauses : ct.amendments # {}

(* C10: POST /contracts is all-or-nothing.  If the cohortId or the userId  *)
(* of any element of the clauses array names no stored row, the call fails *)
(* and stores nothing; otherwise it stores one Contract and one Clause per *)
(* array element, each attached to the new Contract.                       *)
C10_NestedCreateAtomic ==
    [][last'.op = "create" =>
          LET r == last'.req
              nested == IF r.hasClauses THEN r.clauses ELSE <<>>
              newContracts == contracts' \ contracts
              newClauses == clauses' \ clauses
          IN  IF \/ r.cohortId \notin cohorts
                 \/ \E i \in 1..Len(nested) : nested[i].userId \notin users
              THEN /\ last'.status = 500
                   /\ UNCHANGED db
              ELSE /\ last'.status = 201
                   /\ contracts \subseteq contracts'
                   /\ clauses \subseteq clauses'
                   /\ Cardinality(newContracts) = 1
                   /\ Cardinality(newClauses) = Len(nested)
                   /\ \A c \in newClauses : \A k \in newContracts :
                         c.contractId = k.id
                   /\ \A i \in 1..Len(nested) : \E c \in newClauses :
                         /\ c.userId = nested[i].userId
                         /\ c.content = nested[i].content
                   /\ UNCHANGED <<users, cohorts, amendments, dependents>>]_vars

C10_Witness ==
    /\ last.op = "create"
    /\ last.status = 500
    /\ last.req.cohortId \in cohorts
    /\ last.req.hasClauses
    /\ Len(last.req.clauses) = 2
    /\ last.req.clauses[1].userId \in users
    /\ last.req.clauses[2].userId \notin users

(* C11: an Amendment created through POST /contracts/:id/amend attaches to *)
(* a Clause of the Contract named by :id: after a successful propose call  *)
(* :id names a stored Contract and the new Amendment's clause belongs to   *)
(* that Contract.                                                          *)
C11_AmendmentWithinContract ==
    last.op = "amend" /\ last.status = 201 =>
        /\ \E k \in contracts : k.id = last.req.id
        /\ \E c \in clauses :
              /\ c.id = last.body.amendment.clauseId
              /\ c.contractId = last.req.id

====
